---- MODULE Spec2Model ----
(***************************************************************************)
(* Weather Now (src/src/App.js): a React component with four pieces of     *)
(* state (city, weather, loading, error), a submit handler and one async   *)
(* function that chains a geocoding request and a forecast request.        *)
(*                                                                         *)
(* JavaScript runs each handler and each continuation after an await to    *)
(* completion, so one action is one such run.  The network is the          *)
(* environment: the value a fetch() or a json() promise settles with is    *)
(* chosen by \E from the outcomes the platform can produce.                *)
(*                                                                         *)
(* null / undefined / an absent field are the empty sequence <<>> and a    *)
(* present value v is <<v>>.  Text typed by the user is a sequence of      *)
(* one-character strings, so that trim() is computed, not assumed.         *)
(***************************************************************************)
EXTENDS Integers, Sequences, FiniteSets, TLC

VARIABLES city, weather, loading, error, calls, net, view, last

vars == <<city, weather, loading, error, calls, net, view, last>>

-----------------------------------------------------------------------------
(* Bounds *)

MaxLen == 2
MaxSearches == 2
\* Length of the typed text where searches may overlap.
MaxOverlapLen == 1
MaxCode == 99

-----------------------------------------------------------------------------
(* Values *)

Null == <<>>
Some(v) == <<v>>

Chars == {" ", "a"}

RECURSIVE SeqsUpTo(_)
SeqsUpTo(n) ==
  IF n = 0 THEN {<<>>}
  ELSE LET shorter == SeqsUpTo(n - 1)
       IN shorter \cup {Append(s, c) : s \in {t \in shorter : Len(t) = n - 1}, c \in Chars}

Texts == SeqsUpTo(MaxLen)

MsgEmpty == "Please enter a city name."
MsgGeoFailed == "Geocoding request failed"
MsgNotFound == "City not found. Try another name (e.g., 'Delhi', 'San Francisco')."
MsgWeatherFailed == "Weather request failed"
MsgNoCurrent == "No current weather available"
MsgFallback == "Something went wrong"

\* Messages of the TypeError a rejected fetch() carries (Chromium, WebKit).
FetchRejectMsgs == {"Failed to fetch", "Load failed"}
\* Message of the SyntaxError a rejected Response.json() carries.
JsonRejectMsgs == {"Unexpected end of JSON input"}

\* First candidates the geocoding endpoint may return; admin1 is optional.
GeoResults ==
  { [name |-> "Paris", admin1 |-> Some("Ile-de-France"), country |-> "France",
     latitude |-> 48, longitude |-> 2],
    [name |-> "London", admin1 |-> Null, country |-> "United Kingdom",
     latitude |-> 51, longitude |-> 0],
    [name |-> "Monaco", admin1 |-> Some(""), country |-> "Monaco",
     latitude |-> 43, longitude |-> 7] }

Current(c) ==
  [temperature |-> 15, windspeed |-> 10, winddirection |-> 200,
   weathercode |-> c, time |-> "2024-01-01T12:00"]

\* Weather codes the forecast endpoint reports in the search model.
SampleCodes == {3}

NoBody == [hasResults |-> FALSE, results |-> <<>>, current |-> Null]

Reject(m) == [kind |-> "reject", ok |-> FALSE, msg |-> m, body |-> NoBody]
Response(ok) == [kind |-> "response", ok |-> ok, msg |-> "", body |-> NoBody]
Json(b) == [kind |-> "json", ok |-> TRUE, msg |-> "", body |-> b]
NoValue == [kind |-> "none", ok |-> FALSE, msg |-> "", body |-> NoBody]

\* What "await fetch(url)" can settle with.
FetchOutcomes == {Reject(m) : m \in FetchRejectMsgs} \cup {Response(TRUE), Response(FALSE)}

\* What "await geoRes.json()" can settle with.
GeoJsonOutcomes ==
  {Reject(m) : m \in JsonRejectMsgs}
  \cup {Json(NoBody)}
  \cup {Json([hasResults |-> TRUE, results |-> <<>>, current |-> Null])}
  \cup {Json([hasResults |-> TRUE, results |-> <<t>>, current |-> Null]) : t \in GeoResults}

\* What "await forecastRes.json()" can settle with, for a set of weather codes.
ForecastJsonOutcomes(codes) ==
  {Reject(m) : m \in JsonRejectMsgs}
  \cup {Json(NoBody)}
  \cup {Json([hasResults |-> FALSE, results |-> <<>>, current |-> Some(Current(c))]) : c \in codes}

-----------------------------------------------------------------------------
(* Pure functions *)

\* Object keys of "map" in weatherCodeToText with their texts.
TextTable ==
  { <<0, "Clear sky">>, <<1, "Mainly clear">>, <<2, "Partly cloudy">>, <<3, "Overcast">>,
    <<45, "Fog">>, <<48, "Depositing rime fog">>,
    <<51, "Light drizzle">>, <<53, "Moderate drizzle">>, <<55, "Dense drizzle">>,
    <<56, "Freezing drizzle">>, <<57, "Dense freezing drizzle">>,
    <<61, "Slight rain">>, <<63, "Moderate rain">>, <<65, "Heavy rain">>,
    <<66, "Freezing rain">>, <<67, "Heavy freezing rain">>,
    <<71, "Light snow">>, <<73, "Moderate snow">>, <<75, "Heavy snow">>, <<77, "Snow grains">>,
    <<80, "Slight rain showers">>, <<81, "Moderate rain showers">>, <<82, "Violent rain showers">>,
    <<85, "Slight snow showers">>, <<86, "Heavy snow showers">>,
    <<95, "Thunderstorm">>, <<96, "Thunderstorm with slight hail">>,
    <<99, "Thunderstorm with heavy hail">> }

TextKeys == {p[1] : p \in TextTable}

\* map[code] ?? "Unknown"
weatherCodeToText(code) ==
  IF code \in TextKeys
  THEN (CHOOSE p \in TextTable : p[1] = code)[2]
  ELSE "Unknown"

\* The pictographs are named here by what they depict.
EmojiDefault == "high brightness"

\* A plausible slip: code 77 (snow grains) left out of the snow list.
weatherCodeToEmojiSnowGap(code) ==
  IF code = 0 THEN "sun"
  ELSE IF code \in {1, 2} THEN "sun behind small cloud"
  ELSE IF code = 3 THEN "cloud"
  ELSE IF code \in {45, 48} THEN "fog"
  ELSE IF code \in {51, 53, 55, 61, 63, 65, 80, 81, 82} THEN "cloud with rain"
  ELSE IF code \in {56, 57, 66, 67} THEN "ice cloud with rain"
  ELSE IF code \in {71, 73, 75, 85, 86} THEN "snowflake"
  ELSE IF code \in {95, 96, 99} THEN "cloud with lightning and rain"
  ELSE EmojiDefault

weatherCodeToEmoji(code) ==
  IF code = 0 THEN "sun"
  ELSE IF code \in {1, 2} THEN "sun behind small cloud"
  ELSE IF code = 3 THEN "cloud"
  ELSE IF code \in {45, 48} THEN "fog"
  ELSE IF code \in {51, 53, 55, 61, 63, 65, 80, 81, 82} THEN "cloud with rain"
  ELSE IF code \in {56, 57, 66, 67} THEN "ice cloud with rain"
  ELSE IF code \in {71, 73, 75, 77, 85, 86} THEN "snowflake"
  ELSE IF code \in {95, 96, 99} THEN "cloud with lightning and rain"
  ELSE EmojiDefault

\* String.prototype.trim on the typed text: strip leading and trailing blanks.
RECURSIVE TrimStart(_)
TrimStart(s) ==
  IF s # <<>> /\ Head(s) = " " THEN TrimStart(Tail(s)) ELSE s

RECURSIVE TrimEnd(_)
TrimEnd(s) ==
  IF s # <<>> /\ s[Len(s)] = " " THEN TrimEnd(SubSeq(s, 1, Len(s) - 1)) ELSE s

\* A plausible slip: the query is used as typed.
TrimOmitted(s) == s

Trim(s) == TrimEnd(TrimStart(s))

\* A plausible slip: the admin segment is always written.
ComposeNameAlwaysAdmin(top) ==
  top.name \o ", " \o (IF top.admin1 # Null THEN top.admin1[1] ELSE "undefined")
           \o ", " \o top.country

\* `${resolvedName}${admin1 ? ", " + admin1 : ""}, ${country}`
\* (an absent admin1 and the empty string are both falsy)
ComposeName(top) ==
  top.name
  \o (IF top.admin1 # Null /\ top.admin1[1] # "" THEN ", " \o top.admin1[1] ELSE "")
  \o ", " \o top.country

\* A plausible slip: the caught error's own text is dropped.
CatchMessageGeneric(m) == MsgFallback

\* err.message || "Something went wrong"
CatchMessage(m) == IF m = "" THEN MsgFallback ELSE m

\* The weather card of the JSX: shown only when weather is set.
RenderCard(w) ==
  IF w = Null THEN Null
  ELSE Some([city |-> w[1].cityName,
             emoji |-> weatherCodeToEmoji(w[1].current.weathercode),
             desc |-> weatherCodeToText(w[1].current.weathercode)])

-----------------------------------------------------------------------------
(* State *)

\* One entry per invocation of fetchWeatherForCity, in start order: where its
\* continuation is suspended, the destructured first candidate, and how many
\* requests of each kind it has issued.
Call(pc, top, geoN, fcN) == [pc |-> pc, top |-> top, geoN |-> geoN, fcN |-> fcN]

GeoRequest(i, name) ==
  [id |-> i, kind |-> "geo", name |-> name, latitude |-> 0, longitude |-> 0]

ForecastRequest(i, top) ==
  [id |-> i, kind |-> "forecast", name |-> <<>>,
   latitude |-> top.latitude, longitude |-> top.longitude]

\* The most recent step: which operation ran, for which invocation, the
\* value its await settled with, and the invocation's local "top" (if it
\* had destructured one) when the step ran.
Event(op, i, r, top) == [op |-> op, id |-> i, r |-> r, top |-> top]

Init ==
  /\ city = <<>>
  /\ weather = Null
  /\ loading = FALSE
  /\ error = Null
  /\ calls = <<>>
  /\ net = {}
  /\ view = Null
  /\ last = Event("init", 0, NoValue, Null)

-----------------------------------------------------------------------------
(* fetchWeatherForCity *)

\* A plausible slip: setWeather(null) is left out of the prologue.
fetchWeatherForCityKeepsWeather(cityName) ==
  /\ loading' = TRUE
  /\ error' = Null
  /\ weather' = weather
  /\ calls' = Append(calls, Call("geoFetch", Null, 1, 0))
  /\ net' = net \cup {GeoRequest(Len(calls) + 1, cityName)}

\* A plausible slip: both requests are started at once.
fetchWeatherForCityParallel(cityName) ==
  /\ loading' = TRUE
  /\ error' = Null
  /\ weather' = Null
  /\ calls' = Append(calls, Call("geoFetch", Null, 1, 1))
  /\ net' = net \cup {GeoRequest(Len(calls) + 1, cityName),
                      [id |-> Len(calls) + 1, kind |-> "forecast", name |-> <<>>,
                       latitude |-> 0, longitude |-> 0]}

\* The synchronous prologue, up to the first await.
fetchWeatherForCity(cityName) ==
  /\ loading' = TRUE
  /\ error' = Null
  /\ weather' = Null
  /\ calls' = Append(calls, Call("geoFetch", Null, 1, 0))
  /\ net' = net \cup {GeoRequest(Len(calls) + 1, cityName)}

\* A plausible slip: no finally block, loading is lowered only on success.
ReturnErrorNoFinally(i, m) ==
  /\ error' = Some(m)
  /\ calls' = [calls EXCEPT ![i] = Call("done", Null, @.geoN, @.fcN)]
  /\ net' = {n \in net : n.id # i}
  /\ UNCHANGED <<weather, loading>>

\* setError(m), then the finally block; the invocation ends.
ReturnError(i, m) ==
  /\ error' = Some(m)
  /\ loading' = FALSE
  /\ calls' = [calls EXCEPT ![i] = Call("done", Null, @.geoN, @.fcN)]
  /\ net' = {n \in net : n.id # i}
  /\ UNCHANGED weather

\* What a request token would do: only the latest invocation is applied.
ReturnSuccessLatestOnly(i, w) ==
  /\ calls' = [calls EXCEPT ![i] = Call("done", Null, @.geoN, @.fcN)]
  /\ net' = {n \in net : n.id # i}
  /\ IF i = Len(calls)
     THEN weather' = Some(w) /\ loading' = FALSE /\ UNCHANGED error
     ELSE UNCHANGED <<weather, loading, error>>

\* setWeather(w), then the finally block; the invocation ends.
ReturnSuccess(i, w) ==
  /\ weather' = Some(w)
  /\ loading' = FALSE
  /\ calls' = [calls EXCEPT ![i] = Call("done", Null, @.geoN, @.fcN)]
  /\ net' = {n \in net : n.id # i}
  /\ UNCHANGED error

\* A plausible slip: the "return" after setError is missing, so results[0]
\* is destructured although it is undefined and the TypeError is caught.
OnGeoBodyNoReturn(i, b) ==
  IF ~b.hasResults \/ Len(b.results) = 0
  THEN ReturnError(i, CatchMessage("Cannot destructure property 'latitude' of 'top' as it is undefined."))
  ELSE LET top == b.results[1]
       IN /\ calls' = [calls EXCEPT ![i] = Call("fcFetch", Some(top), @.geoN, @.fcN + 1)]
          /\ net' = {n \in net : n.id # i} \cup {ForecastRequest(i, top)}
          /\ UNCHANGED <<weather, loading, error>>

\* The geocoding body was parsed: not found, or destructure the first
\* candidate and issue the forecast request.
OnGeoBody(i, b) ==
  IF ~b.hasResults \/ Len(b.results) = 0
  THEN ReturnError(i, MsgNotFound)
  ELSE LET top == b.results[1]
       IN /\ calls' = [calls EXCEPT ![i] = Call("fcFetch", Some(top), @.geoN, @.fcN + 1)]
          /\ net' = {n \in net : n.id # i} \cup {ForecastRequest(i, top)}
          /\ UNCHANGED <<weather, loading, error>>

\* The forecast body was parsed: throw when current_weather is missing,
\* otherwise publish the result.
OnForecastBody(i, b) ==
  IF b.current = Null
  THEN ReturnError(i, CatchMessage(MsgNoCurrent))
  ELSE LET top == calls[i].top[1]
       IN ReturnSuccess(i, [cityName |-> ComposeName(top),
                            latitude |-> top.latitude,
                            longitude |-> top.longitude,
                            current |-> b.current[1]])

\* The local "top" of invocation i in this step; locals are gone once the
\* invocation has returned.
TopOf(i) == IF calls'[i].top # Null THEN calls'[i].top ELSE calls[i].top

\* "await fetch(geoUrl)" settles with r.
GeoFetchSettled(i, r) ==
  /\ calls[i].pc = "geoFetch"
  /\ IF r.kind = "reject" THEN ReturnError(i, CatchMessage(r.msg))
     ELSE IF ~r.ok THEN ReturnError(i, CatchMessage(MsgGeoFailed))
     ELSE /\ calls' = [calls EXCEPT ![i].pc = "geoJson"]
          /\ UNCHANGED <<weather, loading, error, net>>
  /\ view' = RenderCard(weather')
  /\ last' = Event("geoFetch", i, r, TopOf(i))
  /\ UNCHANGED city

\* "await geoRes.json()" settles with r.
GeoJsonSettled(i, r) ==
  /\ calls[i].pc = "geoJson"
  /\ IF r.kind = "reject" THEN ReturnError(i, CatchMessage(r.msg))
     ELSE OnGeoBody(i, r.body)
  /\ view' = RenderCard(weather')
  /\ last' = Event("geoJson", i, r, TopOf(i))
  /\ UNCHANGED city

\* "await fetch(forecastUrl)" settles with r.
ForecastFetchSettled(i, r) ==
  /\ calls[i].pc = "fcFetch"
  /\ IF r.kind = "reject" THEN ReturnError(i, CatchMessage(r.msg))
     ELSE IF ~r.ok THEN ReturnError(i, CatchMessage(MsgWeatherFailed))
     ELSE /\ calls' = [calls EXCEPT ![i].pc = "fcJson"]
          /\ UNCHANGED <<weather, loading, error, net>>
  /\ view' = RenderCard(weather')
  /\ last' = Event("fcFetch", i, r, TopOf(i))
  /\ UNCHANGED city

\* "await forecastRes.json()" settles with r.
ForecastJsonSettled(i, r) ==
  /\ calls[i].pc = "fcJson"
  /\ IF r.kind = "reject" THEN ReturnError(i, CatchMessage(r.msg))
     ELSE OnForecastBody(i, r.body)
  /\ view' = RenderCard(weather')
  /\ last' = Event("fcJson", i, r, TopOf(i))
  /\ UNCHANGED city

-----------------------------------------------------------------------------
(* User events *)

\* onChange of the input: setCity(e.target.value)
SetCity(v) ==
  /\ city' = v
  /\ last' = Event("setCity", 0, NoValue, Null)
  /\ UNCHANGED <<weather, loading, error, calls, net, view>>

\* The submit handler of the form.
handleSubmit ==
  LET q == Trim(city)
  IN /\ IF q = <<>>
        THEN /\ error' = Some(MsgEmpty)
             /\ UNCHANGED <<weather, loading, calls, net>>
        ELSE /\ Len(calls) < MaxSearches
             /\ fetchWeatherForCity(q)
     /\ view' = RenderCard(weather')
     /\ last' = Event("submit", IF q = <<>> THEN 0 ELSE Len(calls) + 1, NoValue, Null)
     /\ UNCHANGED city

\* A submit through the form's button, which is disabled while loading; a
\* form whose default button is disabled is not submitted by Enter either.
SubmitForm ==
  /\ ~loading
  /\ handleSubmit

\* A submit event dispatched at the form itself (requestSubmit,
\* dispatchEvent): handleSubmit runs whatever the button's state.
SubmitEvent == handleSubmit

Ids == 1..Len(calls)

Network ==
  \E i \in Ids :
    \/ \E r \in FetchOutcomes : GeoFetchSettled(i, r)
    \/ \E r \in GeoJsonOutcomes : GeoJsonSettled(i, r)
    \/ \E r \in FetchOutcomes : ForecastFetchSettled(i, r)
    \/ \E r \in ForecastJsonOutcomes(SampleCodes) : ForecastJsonSettled(i, r)

Next ==
  \/ \E v \in Texts : SetCity(v)
  \/ SubmitForm
  \/ Network

Spec == Init /\ [][Next]_vars

\* Every network call eventually resolves or fails.
FairSpec == Spec /\ WF_vars(Network)

NextOverlap ==
  \/ \E v \in SeqsUpTo(MaxOverlapLen) : SetCity(v)
  \/ SubmitEvent
  \/ Network

SpecOverlap == Init /\ [][NextOverlap]_vars

TypeOK ==
  /\ city \in Texts
  /\ loading \in BOOLEAN
  /\ Len(calls) <= MaxSearches
  /\ \A n \in net : n.id \in Ids
  /\ view = RenderCard(weather)

-----------------------------------------------------------------------------
(* The classifier on every code: a search whose forecast body is about to    *)
(* be read, and a forecast endpoint that may report any code 0..MaxCode.     *)

InitClassifier ==
  \E t \in GeoResults :
    /\ city = <<"a">>
    /\ weather = Null
    /\ loading = TRUE
    /\ error = Null
    /\ calls = <<Call("fcJson", Some(t), 1, 1)>>
    /\ net = {ForecastRequest(1, t)}
    /\ view = Null
    /\ last = Event("fcFetch", 1, Response(TRUE), Some(t))

NextClassifier ==
  \E r \in ForecastJsonOutcomes(0..MaxCode) : ForecastJsonSettled(1, r)

SpecClassifier == InitClassifier /\ [][NextClassifier]_vars

-----------------------------------------------------------------------------
(* Vocabulary of the properties *)

IsBlank(s) == \A k \in 1..Len(s) : s[k] = " "

SettleOps == {"geoFetch", "geoJson", "fcFetch", "fcJson"}

\* The last step was a fetch that failed in transport: rejected, or answered
\* with a non-success status.
Rejected == last.r.kind = "reject"
BadStatus == last.r.kind = "response" /\ ~last.r.ok
ZeroResults ==
  last.op = "geoJson" /\ last.r.kind = "json"
  /\ (~last.r.body.hasResults \/ Len(last.r.body.results) = 0)
MissingPayload ==
  last.op = "fcJson" /\ last.r.kind = "json" /\ last.r.body.current = Null
ForecastFailed ==
  \/ last.op = "fcFetch" /\ (Rejected \/ BadStatus)
  \/ last.op = "fcJson" /\ (Rejected \/ MissingPayload)
Succeeded ==
  last.op = "fcJson" /\ last.r.kind = "json" /\ last.r.body.current # Null

HardErrorMsgs ==
  {MsgGeoFailed, MsgWeatherFailed, MsgNoCurrent, MsgFallback}
  \cup FetchRejectMsgs \cup JsonRejectMsgs

InFlight == \E i \in Ids : calls[i].pc # "done"

-----------------------------------------------------------------------------
(* Properties *)

\* C1: a submission whose query is empty or only whitespace sets the error
\* to "Please enter a city name.", issues no request, starts no search and
\* leaves the loading flag lowered.
C1_EmptySubmitRejected ==
  [][(last'.op = "submit" /\ IsBlank(city))
       => /\ error' = Some(MsgEmpty)
          /\ net' = net
          /\ calls' = calls
          /\ loading' = loading
          /\ ~loading']_vars

C1_Witness ==
  /\ last.op = "submit"
  /\ city # <<>> /\ IsBlank(city)
  /\ error = Some(MsgEmpty)
  /\ net = {} /\ ~loading

\* C2: weather and error are never both set.
C2_NeverWeatherAndError == ~(weather # Null /\ error # Null)

\* C3 as stated: at either stage a rejected fetch and a non-success status
\* both end the search with that stage's fixed message.
C3_StageMessageOnTransportFailure ==
  /\ (last.op = "geoFetch" /\ (Rejected \/ BadStatus)) => error = Some(MsgGeoFailed)
  /\ (last.op = "fcFetch" /\ (Rejected \/ BadStatus)) => error = Some(MsgWeatherFailed)

\* C3 amended: a non-success status ends the search with the stage's fixed
\* message; a rejected fetch ends it with the rejection's own message (the
\* fallback text if that is empty), which is not the stage's message.
C3_StatusVersusRejection ==
  /\ (last.op = "geoFetch" /\ BadStatus) => error = Some(MsgGeoFailed)
  /\ (last.op = "fcFetch" /\ BadStatus) => error = Some(MsgWeatherFailed)
  /\ (last.op \in {"geoFetch", "fcFetch"} /\ Rejected)
       => /\ error = Some(IF last.r.msg = "" THEN MsgFallback ELSE last.r.msg)
          /\ error \notin {Some(MsgGeoFailed), Some(MsgWeatherFailed)}
  /\ (last.op \in {"geoFetch", "fcFetch"} /\ (Rejected \/ BadStatus))
       => ~loading /\ calls[last.id].pc = "done"

C3_Witness ==
  /\ last.op = "fcFetch" /\ Rejected
  /\ error = Some(last.r.msg)
  /\ ~loading

\* C4: geocoding that succeeds with zero results (results absent or empty)
\* ends the search with the not-found message, which is none of the hard
\* error messages; no forecast request is issued and no result is set.
C4_NotFoundIsTerminal ==
  ZeroResults
    => /\ error = Some(MsgNotFound)
       /\ MsgNotFound \notin HardErrorMsgs
       /\ weather = Null
       /\ calls[last.id].pc = "done"
       /\ calls[last.id].fcN = 0
       /\ ~\E n \in net : n.id = last.id

C4_Witness ==
  /\ ZeroResults
  /\ last.r.body.hasResults
  /\ error = Some(MsgNotFound)
  /\ ~loading

\* C5: a forecast body without current_weather ends the search with "No
\* current weather available", and after any forecast-stage failure the
\* result stays null, so nothing of the resolved place is shown.
C5_NoPartialSuccess ==
  /\ MissingPayload => error = Some(MsgNoCurrent)
  /\ ForecastFailed => (weather = Null /\ view = Null /\ error # Null)

C5_Witness ==
  /\ MissingPayload
  /\ last.top # Null
  /\ weather = Null
  /\ error = Some(MsgNoCurrent)

\* C6: for every code in 0..MaxCode that is not a key of the description
\* table the card shows "Unknown" and the default symbol, and a code is
\* described as "Unknown" exactly when it gets the default symbol.
C6_UnknownIffDefault ==
  weather # Null
    => LET c == weather[1].current.weathercode
       IN /\ c \in 0..MaxCode
          /\ view # Null
          /\ c \notin TextKeys
               => (view[1].desc = "Unknown" /\ view[1].emoji = EmojiDefault)
          /\ (view[1].desc = "Unknown") <=> (view[1].emoji = EmojiDefault)

C6_Witness ==
  /\ weather # Null
  /\ weather[1].current.weathercode \notin TextKeys
  /\ view[1].desc = "Unknown"
  /\ view[1].emoji = EmojiDefault

\* C7: on success the display string is "<name>, <admin1>, <country>" when
\* the first candidate has a (non-empty) admin1 and "<name>, <country>" when
\* it has none; there is never an empty segment between two separators.
C7_DisplayString ==
  Succeeded
    => LET t == last.top[1]
           shown == weather[1].cityName
       IN /\ (t.admin1 # Null /\ t.admin1 # Some(""))
               => shown = t.name \o ", " \o t.admin1[1] \o ", " \o t.country
          /\ (t.admin1 = Null \/ t.admin1 = Some(""))
               => shown = t.name \o ", " \o t.country
          /\ shown # t.name \o ", , " \o t.country
          /\ t.name = "Paris" => shown = "Paris, Ile-de-France, France"
          /\ t.name = "London" => shown = "London, United Kingdom"

C7_Witness ==
  /\ Succeeded
  /\ last.top[1].admin1 = Null
  /\ weather[1].cityName = "London, United Kingdom"

\* C8: each search issues the geocoding request once and the forecast
\* request at most once, the forecast request only after geocoding gave a
\* first candidate, never both outstanding together, and a failed search
\* is over (nothing is reissued).
C8_SequentialChain ==
  /\ \A i \in Ids :
       /\ calls[i].geoN = 1
       /\ calls[i].fcN <= 1
       /\ Cardinality({n \in net : n.id = i}) <= 1
       /\ calls[i].fcN = 1 => calls[i].pc \notin {"geoFetch", "geoJson"}
       /\ calls[i].pc \in {"fcFetch", "fcJson"} => (calls[i].fcN = 1 /\ calls[i].top # Null)
       /\ \A n \in net :
            n.id = i
              => IF n.kind = "geo"
                 THEN calls[i].pc \in {"geoFetch", "geoJson"}
                 ELSE /\ calls[i].pc \in {"fcFetch", "fcJson"}
                      /\ n.latitude = calls[i].top[1].latitude
                      /\ n.longitude = calls[i].top[1].longitude
  /\ (last.op = "geoJson" /\ calls[last.id].fcN = 1)
       => (last.r.kind = "json" /\ Len(last.r.body.results) >= 1)
  /\ (last.op \in SettleOps /\ (Rejected \/ BadStatus \/ ZeroResults \/ MissingPayload))
       => (calls[last.id].pc = "done" /\ ~\E n \in net : n.id = last.id)

C8_Witness ==
  \E i \in Ids :
    /\ calls[i].pc = "fcFetch"
    /\ calls[i].geoN = 1 /\ calls[i].fcN = 1
    /\ \E n \in net : n.id = i /\ n.kind = "forecast"

\* C9: when an invocation ends after a newer search has started, its outcome
\* is still written to the visible state: its result (or its error) is
\* shown and loading is lowered, whatever the newer search is doing.
StaleEnd ==
  /\ last.op \in SettleOps
  /\ last.id < Len(calls)
  /\ calls[last.id].pc = "done"

C10_LoadingBracketsSearch ==
  /\ [](loading <=> InFlight)
  /\ [](net # {} => loading)
  /\ [][(loading /\ ~loading') => ((weather' # Null) # (error' # Null))]_vars
  /\ (loading ~> ~loading)

C10_Witness ==
  /\ last.op \in SettleOps
  /\ ~loading /\ ~InFlight
  /\ Len(calls) = MaxSearches
  /\ weather # Null /\ error = Null

====
